---------------------------- MODULE Spec2Model ----------------------------
(***************************************************************************)
(* Model of fast-graph (rust-core): the physics step and the renderer a    *)
(* caller drives.                                                          *)
(*                                                                         *)
(*   src/rust-core/src/renderer.rs  PHYSICS_SHADER (lines 13-202), the     *)
(*                                  host side Renderer::init,              *)
(*                                  Renderer::integrate_physics,           *)
(*                                  Renderer::render, Renderer::resize     *)
(*   src/rust-core/src/lib.rs       FastGraphRenderer (the caller-owned    *)
(*                                  lists, colours and camera, and its     *)
(*                                  public operations)                     *)
(*                                                                         *)
(* Numbers.  An f32 is modelled as a fixed-point integer with SCALE units  *)
(* per 1.0.  Sums, differences and comparisons are exact; a product, a     *)
(* quotient and sqrt are rounded toward zero to the next unit.             *)
(*                                                                         *)
(* Scaling.  The workgroup size (64 in the source) and the number of index *)
(* slots of a grid cell (32 in the source) are scaled down, because the    *)
(* model runs every invocation of a dispatch as a step of its own and      *)
(* explores every order of them.  GRID_SIZE, the world bounds and the      *)
(* distance thresholds have their source values.                           *)
(*                                                                         *)
(* GPU execution.  The four dispatches of one compute pass execute in the  *)
(* order they were recorded, each one after the previous one has finished  *)
(* (the ordering a WebGPU compute pass gives to its dispatches); inside a  *)
(* dispatch the invocations run in any order.  atomicAdd is one step.      *)
(*                                                                         *)
(* Calls.  An operation of FastGraphRenderer is one step.  last_call keeps *)
(* what the caller and the backend have seen of the last one: its          *)
(* arguments, its result, the frame it has drawn.                          *)
(*                                                                         *)
(* Panics.  render and resize wrap their backend calls in catch_unwind,    *)
(* which catches a panic in a build that unwinds and nothing in a build    *)
(* that aborts (wasm32); the model follows both.                           *)
(*                                                                         *)
(* Specifications.  Spec has the operations a physics step depends on, on  *)
(* every list; ApiSpec has the public operations of FastGraphRenderer,     *)
(* none of which takes a physics step; HostSpec has both kinds, with steps *)
(* on short lists.                                                         *)
(***************************************************************************)
EXTENDS Integers, Sequences, FiniteSets, TLC

(***************************************************************************)
(* Bounds of the model                                                     *)
(***************************************************************************)
\* invocations per workgroup: @workgroup_size(64) in the source, scaled
WORKGROUP_SIZE == 2
\* index slots per grid cell: array<u32, 32> in the source, scaled
CELL_CAPACITY == 2
\* calls of Renderer::integrate_physics the model follows
MaxSteps == 2
\* largest value device.limits().max_storage_buffers_per_shader_stage takes
MaxStorageBuffers == 3
\* node records the physics buffer is sized for: 100_000 in the source, scaled
MAX_NODES == 7
\* edge records the physics buffer is sized for: 200_000 in the source, scaled
MAX_EDGES == 1

(***************************************************************************)
(* Program constants                                                       *)
(***************************************************************************)
\* fixed-point units per 1.0
SCALE == 1000
\* renderer.rs:62
GRID_SIZE == 32
\* renderer.rs:60 and :99, the 1024 cells
GRID_CELLS == GRID_SIZE * GRID_SIZE
\* renderer.rs:63
WORLD_MIN == 0 - SCALE
\* renderer.rs:64
WORLD_MAX == SCALE
\* renderer.rs:65
WORLD_SIZE == 2 * SCALE
\* renderer.rs:69, the upper clamp 0.999
CLAMP_MAX == (999 * SCALE) \div 1000
\* renderer.rs:82, the lower distance cutoff 0.001
EPSILON_DIST == SCALE \div 1000
\* renderer.rs:86, the distance floor 0.01
MIN_DIST == SCALE \div 100
\* f32 fields of the host NodeData, lib.rs:9-17
HOST_FLOATS_PER_NODE == 7
\* f32 fields of the shader NodeData, renderer.rs:14-27
SHADER_FLOATS_PER_NODE == 12
\* f32 fields of EdgeData, lib.rs:21-31 and renderer.rs:29-39
FLOATS_PER_EDGE == 9
\* renderer.rs:426, the storage buffers the compute path asks for
REQUIRED_STORAGE_BUFFERS == 3

(***************************************************************************)
(* Fixed-point arithmetic                                                  *)
(***************************************************************************)
Abs(a) == IF a < 0 THEN 0 - a ELSE a

\* integer quotient rounded toward zero
TruncDiv(a, b) ==
    LET q == Abs(a) \div Abs(b)
    IN  IF (a < 0) # (b < 0) THEN 0 - q ELSE q

\* a * b of two fixed-point numbers, rounded toward zero
Mul(a, b) ==
    LET a1 == Abs(a) \div SCALE
        a0 == Abs(a) % SCALE
        b1 == Abs(b) \div SCALE
        b0 == Abs(b) % SCALE
        m  == a1 * b1 * SCALE + a1 * b0 + a0 * b1 + ((a0 * b0) \div SCALE)
    IN  IF (a < 0) # (b < 0) THEN 0 - m ELSE m

\* a / b of two fixed-point numbers, rounded toward zero
Div(a, b) == TruncDiv(a * SCALE, b)

RECURSIVE SqrtSearch(_, _, _)
SqrtSearch(n, lo, hi) ==
    IF lo >= hi THEN lo
    ELSE LET mid == (lo + hi + 1) \div 2
         IN  IF mid * mid <= n THEN SqrtSearch(n, mid, hi)
             ELSE SqrtSearch(n, lo, mid - 1)

\* floor of the square root of n >= 0
ISqrt(n) == SqrtSearch(n, 0, 46340)

Max(a, b) == IF a >= b THEN a ELSE b
Min(a, b) == IF a <= b THEN a ELSE b

\* the bits of (n as f32) read as a u32, for 0 <= n < 2^24
RECURSIVE Log2Floor(_)
Log2Floor(n) == IF n <= 1 THEN 0 ELSE 1 + Log2Floor(n \div 2)

F32BitsOfCount(n) ==
    IF n = 0 THEN 0
    ELSE LET e == Log2Floor(n)
         IN  (127 + e) * (2 ^ 23) + (n - 2 ^ e) * (2 ^ (23 - e))

(***************************************************************************)
(* Records                                                                 *)
(***************************************************************************)
\* lib.rs NodeData: x, y, r, g, b, a, size
HostNode(x, y, r, g, b, a, size) ==
    [x |-> x, y |-> y, r |-> r, g |-> g, b |-> b, a |-> a, size |-> size]

HostFloats(nd) == <<nd.x, nd.y, nd.r, nd.g, nd.b, nd.a, nd.size>>

\* bytemuck::cast_slice(nodes): the node list as one run of f32
RECURSIVE CastSlice(_)
CastSlice(ns) ==
    IF ns = <<>> THEN <<>> ELSE HostFloats(Head(ns)) \o CastSlice(Tail(ns))

\* lib.rs EdgeData: x1, y1, x2, y2, r, g, b, a, width
HostEdge(x1, y1, x2, y2, r, g, b, a, width) ==
    [x1 |-> x1, y1 |-> y1, x2 |-> x2, y2 |-> y2,
     r |-> r, g |-> g, b |-> b, a |-> a, width |-> width]

\* the [f32; 9] integrate_physics builds of an edge
EdgeFloats(ed) == <<ed.x1, ed.y1, ed.x2, ed.y2, ed.r, ed.g, ed.b, ed.a, ed.width>>

\* bytemuck::cast_slice(&edge_data): the edge list as one run of f32
RECURSIVE CastEdges(_)
CastEdges(es) ==
    IF es = <<>> THEN <<>> ELSE EdgeFloats(Head(es)) \o CastEdges(Tail(es))

\* nodes[k] as the shader reads it: 12 consecutive f32 of the storage buffer
ShaderNode(buf, k) ==
    LET o == SHADER_FLOATS_PER_NODE * k
    IN  [x  |-> buf[o + 1],  y  |-> buf[o + 2],
         vx |-> buf[o + 3],  vy |-> buf[o + 4],
         fx |-> buf[o + 5],  fy |-> buf[o + 6],
         r  |-> buf[o + 7],  g  |-> buf[o + 8],
         b  |-> buf[o + 9],  a  |-> buf[o + 10],
         size |-> buf[o + 11], mass |-> buf[o + 12]]

ShaderFloats(n) ==
    <<n.x, n.y, n.vx, n.vy, n.fx, n.fy, n.r, n.g, n.b, n.a, n.size, n.mass>>

\* nodes[k] = n
StoreNode(buf, k, n) ==
    LET o == SHADER_FLOATS_PER_NODE * k
    IN  [i \in 1..Len(buf) |->
            IF i > o /\ i <= o + SHADER_FLOATS_PER_NODE
            THEN ShaderFloats(n)[i - o] ELSE buf[i]]

\* a GridCell of a zero-initialised buffer
ZeroCell ==
    [node_indices |-> [s \in 0..(CELL_CAPACITY - 1) |-> 0], node_count |-> 0]

\* grid[c]; the grid is kept as the cells that differ from ZeroCell
Cell(grd, c) == IF c \in DOMAIN grd THEN grd[c] ELSE ZeroCell

\* grid[c] = cell
PutCell(grd, c, cell) ==
    LET dom == IF cell = ZeroCell THEN DOMAIN grd \ {c} ELSE DOMAIN grd \cup {c}
    IN  [d \in dom |-> IF d = c THEN cell ELSE grd[d]]

(***************************************************************************)
(* PHYSICS_SHADER: helper functions                                        *)
(***************************************************************************)
\* one axis of get_grid_cell without its clamp (what C11 rests on)
GridAxisNoClamp(p) == TruncDiv((p - WORLD_MIN) * GRID_SIZE, WORLD_SIZE)

\* one axis of get_grid_cell: normalise, clamp to [0, 0.999], scale, truncate
GridAxis(p) ==
    LET n == p - WORLD_MIN
    IN  IF n <= 0 THEN 0
        ELSE IF n >= Mul(CLAMP_MAX, WORLD_SIZE)
             THEN (CLAMP_MAX * GRID_SIZE) \div SCALE
             ELSE (n * GRID_SIZE) \div WORLD_SIZE

get_grid_cell(x, y) == [x |-> GridAxis(x), y |-> GridAxis(y)]

get_grid_index(grid_pos) == grid_pos.y * GRID_SIZE + grid_pos.x

\* sqrt(dx * dx + dy * dy); beyond 30.0 per axis the operands are taken in
\* units of c / SCALE, so that the squares stay in range
Hypot(dx, dy) ==
    LET c == 1 + (Max(Abs(dx), Abs(dy)) \div (30 * SCALE))
        ax == Abs(dx) \div c
        ay == Abs(dy) \div c
    IN  c * ISqrt(ax * ax + ay * ay)

\* dist = sqrt(dx * dx + dy * dy)
Dist(node_a, node_b) == Hypot(node_b.x - node_a.x, node_b.y - node_a.y)

\* the early return without its radius test (what C6 rests on)
ForceCutoffNoRadius(dist, p) == dist < EPSILON_DIST

\* the early return without its 0.001 test (what C7 rests on)
ForceCutoffNoEpsilon(dist, p) == dist > p.repulsion_radius

\* the early return of calculate_repulsion_force
ForceCutoff(dist, p) == dist > p.repulsion_radius \/ dist < EPSILON_DIST

\* min_dist * min_dist, in units of 1 / SCALE^2
MinDistSquared(dist) == LET min_dist == Max(dist, MIN_DIST) IN min_dist * min_dist

\* force_magnitude = repulsion_strength / (min_dist * min_dist)
ForceMagnitude(dist, p) ==
    TruncDiv(p.repulsion_strength * SCALE * SCALE, MinDistSquared(dist))

calculate_repulsion_force(node_a, node_b, p) ==
    LET dx == node_b.x - node_a.x
        dy == node_b.y - node_a.y
        dist == Dist(node_a, node_b)
    IN  IF ForceCutoff(dist, p) THEN [x |-> 0, y |-> 0]
        ELSE LET force_magnitude == ForceMagnitude(dist, p)
                 nx == Div(0 - dx, dist)
                 ny == Div(0 - dy, dist)
             IN  [x |-> Mul(nx, force_magnitude), y |-> Mul(ny, force_magnitude)]


(***************************************************************************)
(* PHYSICS_SHADER: entry points, one invocation each                       *)
(***************************************************************************)
\* clear_grid, invocation grid_index
clear_grid(grd, grid_index) ==
    IF grid_index >= GRID_CELLS THEN grd
    ELSE PutCell(grd, grid_index,
                 [Cell(grd, grid_index) EXCEPT !.node_count = 0])

\* assign_to_grid, invocation node_index: atomicAdd, then the slot write
assign_to_grid(grd, buf, p, node_index) ==
    IF node_index >= p.node_count THEN grd
    ELSE LET node == ShaderNode(buf, node_index)
             grid_index == get_grid_index(get_grid_cell(node.x, node.y))
             cell == Cell(grd, grid_index)
             cell_node_count == cell.node_count
             counted == [cell EXCEPT !.node_count = cell_node_count + 1]
         IN  IF cell_node_count < CELL_CAPACITY
             THEN PutCell(grd, grid_index,
                          [counted EXCEPT !.node_indices[cell_node_count] = node_index])
             ELSE PutCell(grd, grid_index, counted)

\* cell.node_indices[i] for i < cell.node_count && i < capacity, in order
CellSlots(cell) ==
    [s \in 1..Min(cell.node_count, CELL_CAPACITY) |-> cell.node_indices[s - 1]]

\* the indices read by the dy / dx loops from step k on (k = 3 * (dy+1) + (dx+1))
RECURSIVE NeighbourSlots(_, _, _)
NeighbourSlots(grd, grid_pos, k) ==
    IF k >= 9 THEN <<>>
    ELSE LET check_x == grid_pos.x + (k % 3) - 1
             check_y == grid_pos.y + (k \div 3) - 1
             here == IF check_x >= 0 /\ check_x < GRID_SIZE
                        /\ check_y >= 0 /\ check_y < GRID_SIZE
                     THEN CellSlots(Cell(grd,
                              get_grid_index([x |-> check_x, y |-> check_y])))
                     ELSE <<>>
         IN  here \o NeighbourSlots(grd, grid_pos, k + 1)

\* what one neighbour adds to total_force: total_force -= repulsion_force
RepulsionContribution(node, other_node, p) ==
    LET repulsion_force == calculate_repulsion_force(node, other_node, p)
    IN  [x |-> 0 - repulsion_force.x, y |-> 0 - repulsion_force.y]

\* total_force after the slots in others have been visited
RECURSIVE TotalForce(_, _, _, _, _, _)
TotalForce(buf, p, node, node_index, others, total_force) ==
    IF others = <<>> THEN total_force
    ELSE LET other_node_index == Head(others)
             c == RepulsionContribution(node, ShaderNode(buf, other_node_index), p)
             next == IF other_node_index # node_index
                     THEN [x |-> total_force.x + c.x, y |-> total_force.y + c.y]
                     ELSE total_force
         IN  TotalForce(buf, p, node, node_index, Tail(others), next)

\* calculate_repulsion with the opposite force written to the accumulator of
\* the first node it visits (what C18 rests on)
calculate_repulsion_shared(grd, buf, p, node_index) ==
    IF node_index >= p.node_count THEN buf
    ELSE LET node == ShaderNode(buf, node_index)
             grid_pos == get_grid_cell(node.x, node.y)
             others == NeighbourSlots(grd, grid_pos, 0)
             total_force == TotalForce(buf, p, node, node_index, others,
                                       [x |-> 0, y |-> 0])
             own == StoreNode(buf, node_index,
                              [node EXCEPT !.fx = node.fx + total_force.x,
                                           !.fy = node.fy + total_force.y])
         IN  IF others = <<>> \/ Head(others) = node_index THEN own
             ELSE LET other_node == ShaderNode(own, Head(others))
                  IN  StoreNode(own, Head(others),
                                [other_node EXCEPT !.fx = other_node.fx - total_force.x,
                                                   !.fy = other_node.fy - total_force.y])

\* calculate_repulsion, invocation node_index; the record of another node is
\* loaded whole, but only x and y of the copy are used
calculate_repulsion(grd, buf, p, node_index) ==
    IF node_index >= p.node_count THEN buf
    ELSE LET node == ShaderNode(buf, node_index)
             grid_pos == get_grid_cell(node.x, node.y)
             total_force == TotalForce(buf, p, node, node_index,
                                       NeighbourSlots(grd, grid_pos, 0),
                                       [x |-> 0, y |-> 0])
         IN  StoreNode(buf, node_index,
                       [node EXCEPT !.fx = node.fx + total_force.x,
                                    !.fy = node.fy + total_force.y])

\* an integrator that moves the node by its velocity of before the step
\* (what C8 rests on)
IntegratedExplicitEuler(node, p) ==
    [node EXCEPT !.vx = Mul(node.vx + Mul(node.fx, p.delta_time), p.damping_factor),
                 !.vy = Mul(node.vy + Mul(node.fy, p.delta_time), p.damping_factor),
                 !.x = node.x + Mul(node.vx, p.delta_time),
                 !.y = node.y + Mul(node.vy, p.delta_time),
                 !.fx = 0, !.fy = 0]

\* the body of integrate_physics applied to one node
Integrated(node, p) ==
    LET vx == Mul(node.vx + Mul(node.fx, p.delta_time), p.damping_factor)
        vy == Mul(node.vy + Mul(node.fy, p.delta_time), p.damping_factor)
    IN  [node EXCEPT !.vx = vx, !.vy = vy,
                     !.x = node.x + Mul(vx, p.delta_time),
                     !.y = node.y + Mul(vy, p.delta_time),
                     !.fx = 0, !.fy = 0]

\* integrate_physics (shader), invocation index
integrate_physics(buf, p, index) ==
    IF index >= p.node_count THEN buf
    ELSE StoreNode(buf, index, Integrated(ShaderNode(buf, index), p))

(***************************************************************************)
(* Inputs                                                                  *)
(***************************************************************************)
\* node lists a caller hands to set_nodes (x, y, r, g, b, a, size)
NodeLists ==
    { <<>>,
      << HostNode(0, 0, 1000, 0, 0, 1000, 5000) >>,
      << HostNode(0, 0, 0, 0, 0, 0, 5000),
         HostNode(300, 300, 1000, 0, 0, 1000, 0) >>,
      << HostNode(0, 0, 500, 0, 0, 0, 5000),
         HostNode(300, 300, 0, 1000, 0, 50, 0) >>,
      << HostNode(1, 0, 0, 0, 0, 0, 5000),
         HostNode(300, 300, 0, 0, 1000, 21, 0),
         HostNode(1000, 0 - 2000, 0, 0, 1000, 1000, 3000) >>,
      [k \in 1..(MAX_NODES + 1) |-> HostNode(100 * k, 0, 0, 0, 0, 0, 5000)] }

\* the flat buffers of set_nodes; the one of a single node ends in an
\* incomplete record
NodeInputs ==
    { IF Len(ns) = 1 THEN CastSlice(ns) \o <<7, 7>> ELSE CastSlice(ns) :
          ns \in NodeLists }

\* edge lists a caller hands to set_edges (x1, y1, x2, y2, r, g, b, a, width)
EdgeLists ==
    { <<>>,
      << HostEdge(0, 0, 50, 0, 1000, 1000, 1000, 1000, 1000) >>,
      [k \in 1..(MAX_EDGES + 1) |->
          HostEdge(0, 0, 50 * k, 0, 1000, 1000, 1000, 1000, 1000)] }

\* the flat buffers of set_edges; the one of a single edge ends in an
\* incomplete record
EdgeInputs ==
    { IF Len(es) = 1 THEN CastEdges(es) \o <<7, 7, 7>> ELSE CastEdges(es) :
          es \in EdgeLists }

PhysicsInput(dt, damping, spring, rest, strength, radius) ==
    [delta_time |-> dt, damping_factor |-> damping, spring_constant |-> spring,
     rest_length |-> rest, repulsion_strength |-> strength,
     repulsion_radius |-> radius]

\* the tunables a caller hands to a step
ParamInputs ==
    { PhysicsInput(1000, 1000, 0, 0, 0, 0),
      PhysicsInput(10, 500, 0, 0, 1000, 2000),
      PhysicsInput(10, 1000, 500, 100, 1000, 20) }

\* invocations of a per-node dispatch: (n + 63) / 64 workgroups
NodeWorkgroups(n) == (n + WORKGROUP_SIZE - 1) \div WORKGROUP_SIZE
NodeInvocations(n) == NodeWorkgroups(n) * WORKGROUP_SIZE

\* invocations of the clear dispatch: 16 workgroups of 64 for the 1024 cells
ClearInvocations ==
    ((GRID_CELLS + WORKGROUP_SIZE - 1) \div WORKGROUP_SIZE) * WORKGROUP_SIZE

\* f32 slots of the node storage buffer: MAX_NODES host records
NodeBufferLen == MAX_NODES * HOST_FLOATS_PER_NODE

\* f32 slots of the edge storage buffer: MAX_EDGES records
EdgeBufferLen == MAX_EDGES * FLOATS_PER_EDGE

ZeroParams ==
    [delta_time |-> 0, damping_factor |-> 0, spring_constant |-> 0,
     rest_length |-> 0, repulsion_strength |-> 0, repulsion_radius |-> 0,
     node_count |-> 0, edge_count |-> 0]

Phases == <<"clear_grid", "assign_to_grid", "calculate_repulsion", "integrate_physics">>

(***************************************************************************)
(* State                                                                   *)
(***************************************************************************)
\* the surface configuration of a renderer that has none (Renderer.config is None)
NoConfig == [width |-> 0, height |-> 0]

\* renderer.rs:288 and 1178, the largest width and height a surface takes
MAX_TEXTURE_SIZE == 2048

\* the size of the canvas handed to init
CanvasSize == [width |-> 800, height |-> 600]

\* the size Renderer::resize falls back to when configure fails
FallbackSize == [width |-> 800, height |-> 600]

\* widths a caller hands to resize: none, a valid one, one beyond the limit
ResizeWidths == {0, 1024, 2 * MAX_TEXTURE_SIZE}

\* heights a caller hands to resize: none, a valid one, one beyond the limit
ResizeHeights == {0, 768, 2 * MAX_TEXTURE_SIZE}

\* the canvases a caller hands to init: a valid one, one without width, one
\* wider than the texture limit
CanvasSizes ==
    { CanvasSize,
      [width |-> 0, height |-> 600],
      [width |-> 2 * MAX_TEXTURE_SIZE, height |-> 600] }

\* lib.rs:84, the attempts of FastGraphRenderer::init
max_attempts == 2

\* what the backend does in one call of Renderer::init on a valid canvas: an
\* error (no surface, no adapter, no device), or a device with its limit of
\* storage buffers per shader stage
BackendInits ==
    { [ok |-> FALSE, max_storage_buffers |-> 0] }
    \cup { [ok |-> TRUE, max_storage_buffers |-> m] : m \in 0..MaxStorageBuffers }

\* what the backend does in one frame: get_current_texture fails, the frame is
\* presented, or a call panics while the pass is encoded or when it is
\* submitted and presented
FrameEvents == {"no_texture", "presented", "panic_in_encode", "panic_in_submit"}

\* what the backend does in surface.configure of a resize
ConfigureEvents == {"configured", "panic"}

\* the time a caller hands to render
Times == {16}

\* [f32; 4] colours: the two of FastGraphRenderer::new and one a caller sets
Red == <<SCALE, 0, 0, SCALE>>
Blue == <<0, 0, SCALE, SCALE>>
Green == <<0, SCALE, 0, SCALE>>
ColourInputs == {Green}

\* what parse_hex_color returns for the strings a caller hands to
\* set_color1_hex and set_color2_hex: None, or Some colour
NoColour == <<>>
Yellow == <<SCALE, SCALE, 0, SCALE>>
ParsedHexInputs == {NoColour, Yellow}

\* an f32 that is not a number, kept apart from every number of the model
NaN == 0 - (2 ^ 30)

\* the zooms a caller hands to set_camera_zoom: NaN, below the range, its two
\* ends, inside it, above it
ZoomInputs == {NaN, SCALE \div 20, SCALE \div 10, (5 * SCALE) \div 2, 10 * SCALE, 20 * SCALE}

\* the positions a caller hands to set_camera_position
CameraInputs == { <<SCALE \div 2, 0 - (SCALE \div 4)>> }

\* what a call that returns nothing and does not reach the backend leaves in
\* last_call
NoCall == [op |-> "none"]

VARIABLES
    nodes,               \* FastGraphRenderer.nodes, the caller-visible node list
    edges,               \* FastGraphRenderer.edges
    is_initialized,      \* FastGraphRenderer.is_initialized
    compute,             \* Renderer: the compute pipelines and physics buffers are Some
    config,              \* Renderer.config: the size the surface is configured with
    is_rendering,        \* FastGraphRenderer.is_rendering
    color1,              \* FastGraphRenderer.color1
    color2,              \* FastGraphRenderer.color2
    camera_position,     \* FastGraphRenderer.camera_position
    camera_zoom,         \* FastGraphRenderer.camera_zoom
    node_physics_buffer, \* GPU: binding 0, as f32
    physics_params,      \* GPU: binding 2, as the shader reads it
    grid,                \* GPU: binding 3
    phase,               \* "idle": the renderer takes a call; the entry point of the
                         \*      running dispatch; "write_refused" (see
                         \*      Renderer_integrate_physics) or "trapped" (see Caught)
    done,                \* GPU: invocations of the running dispatch that have finished
    steps,               \* calls of Renderer::integrate_physics so far
    last_node_data,           \* history: the argument of the last set_nodes
    last_edge_data,           \* history: the argument of the last set_edges
    stepInput,           \* history: the node list handed to the last step
    stepParams,          \* history: the tunables handed to the last step
    stepStart,           \* history: binding 0 when the last step was submitted
    phaseStart,          \* history: binding 0 when the running dispatch started
    phaseTrace,          \* history: the dispatches of the last step, in order
    last_call            \* history: the last call of the caller: its arguments, what
                         \*          it returned and what it had the backend do

hostVars == <<nodes, edges, is_initialized, compute, config>>
viewVars == <<is_rendering, color1, color2, camera_position, camera_zoom>>
gpuVars == <<node_physics_buffer, physics_params, grid, phase, done>>
histVars == <<steps, last_node_data, last_edge_data, stepInput, stepParams, stepStart,
              phaseStart, phaseTrace>>

\* nodes.len() of the last step
stepNodes == Len(stepInput)
vars == <<hostVars, viewVars, gpuVars, histVars, last_call>>

ZeroBuffer == [i \in 1..NodeBufferLen |-> 0]

\* FastGraphRenderer::new, Renderer::new
Init ==
    /\ nodes = <<>>
    /\ edges = <<>>
    /\ is_initialized = FALSE
    /\ compute = FALSE
    /\ config = NoConfig
    /\ is_rendering = FALSE
    /\ color1 = Red
    /\ color2 = Blue
    /\ camera_position = <<0, 0>>
    /\ camera_zoom = SCALE
    /\ last_call = NoCall
    /\ node_physics_buffer = ZeroBuffer
    /\ physics_params = ZeroParams
    /\ grid = << >>
    /\ phase = "idle"
    /\ done = {}
    /\ steps = 0
    /\ last_node_data = <<>>
    /\ last_edge_data = <<>>
    /\ stepInput = <<>>
    /\ stepParams = PhysicsInput(0, 0, 0, 0, 0, 0)
    /\ stepStart = ZeroBuffer
    /\ phaseStart = ZeroBuffer
    /\ phaseTrace = <<>>

(***************************************************************************)
(* Host operations                                                         *)
(***************************************************************************)
\* Renderer::init on a canvas, given what the backend does: the size of the
\* canvas is validated; then, unless the backend fails, the surface is
\* configured with that size, and the compute pipelines and the physics buffers
\* are created when the device reports enough storage buffers.  The fields are
\* stored at the end: on an error the renderer is as it was.
\* renderer is [compute, config].
Renderer_init(renderer, canvas, backend) ==
    IF canvas.width = 0 \/ canvas.height = 0
    THEN [result |-> "Err", renderer |-> renderer]
    ELSE IF canvas.width > MAX_TEXTURE_SIZE \/ canvas.height > MAX_TEXTURE_SIZE
    THEN [result |-> "Err", renderer |-> renderer]
    ELSE IF ~backend.ok
    THEN [result |-> "Err", renderer |-> renderer]
    ELSE [result |-> "Ok",
          renderer |-> [compute |-> (backend.max_storage_buffers
                                        >= REQUIRED_STORAGE_BUFFERS),
                        config |-> canvas]]

\* the loop of init going on after a success as after a failure (what C28
\* rests on)
RECURSIVE InitAttemptsNoReturn(_, _, _, _, _)
InitAttemptsNoReturn(renderer, canvas, backends, attempts, results) ==
    IF attempts >= max_attempts
    THEN [result |-> "Err", renderer |-> renderer, backend_results |-> results]
    ELSE LET r == Renderer_init(renderer, canvas, backends[Len(results) + 1])
             made == Append(results, r.result)
         IN  IF attempts + 1 >= max_attempts
             THEN [result |-> r.result, renderer |-> r.renderer,
                   backend_results |-> made]
             ELSE InitAttemptsNoReturn(r.renderer, canvas, backends, attempts + 1, made)

\* the while loop of FastGraphRenderer::init with `attempts` failures behind
\* it; backends[k] is what the backend does in the k-th call of Renderer::init,
\* results the results of the calls made so far
RECURSIVE InitAttempts(_, _, _, _, _)
InitAttempts(renderer, canvas, backends, attempts, results) ==
    IF attempts >= max_attempts
    THEN [result |-> "Err", renderer |-> renderer, backend_results |-> results]
    ELSE LET r == Renderer_init(renderer, canvas, backends[Len(results) + 1])
             made == Append(results, r.result)
         IN  IF r.result = "Ok"
             THEN [result |-> "Ok", renderer |-> r.renderer, backend_results |-> made]
             ELSE IF attempts + 1 >= max_attempts
                  THEN [result |-> "Err", renderer |-> r.renderer,
                        backend_results |-> made]
                  ELSE InitAttempts(r.renderer, canvas, backends, attempts + 1, made)

\* FastGraphRenderer::init without its test of is_initialized (what C17 rests on)
initReprobe ==
    /\ phase = "idle"
    /\ \E r \in { InitAttempts([compute |-> compute, config |-> config],
                                canvas, backends, 0, <<>>) :
                   canvas \in CanvasSizes,
                   backends \in [1..max_attempts -> BackendInits] } :
          /\ is_initialized' = IF r.result = "Ok" THEN TRUE ELSE is_initialized
          /\ compute' = r.renderer.compute
          /\ config' = r.renderer.config
          /\ last_call' = [op |-> "init", result |-> r.result,
                           backend_results |-> r.backend_results]
    /\ UNCHANGED <<nodes, edges, viewVars, gpuVars, histVars>>

\* FastGraphRenderer::init: a renderer that is initialized returns Ok at once;
\* otherwise Renderer::init is tried up to max_attempts times
init ==
    /\ phase = "idle"
    /\ IF is_initialized
       THEN /\ last_call' = [op |-> "init", result |-> "Ok", backend_results |-> <<>>]
            /\ UNCHANGED <<is_initialized, compute, config>>
       ELSE \E r \in { InitAttempts([compute |-> compute, config |-> config],
                                     canvas, backends, 0, <<>>) :
                        canvas \in CanvasSizes,
                        backends \in [1..max_attempts -> BackendInits] } :
               /\ is_initialized' = (r.result = "Ok")
               /\ compute' = r.renderer.compute
               /\ config' = r.renderer.config
               /\ last_call' = [op |-> "init", result |-> r.result,
                                backend_results |-> r.backend_results]
    /\ UNCHANGED <<nodes, edges, viewVars, gpuVars, histVars>>

\* the records set_nodes pushes: one per complete run of 7 floats
ParsedNodes(node_data) ==
    LET stride == HOST_FLOATS_PER_NODE
        node_count == Len(node_data) \div stride
    IN  [k \in 1..node_count |->
            LET base == (k - 1) * stride
            IN  HostNode(node_data[base + 1], node_data[base + 2],
                         node_data[base + 3], node_data[base + 4],
                         node_data[base + 5], node_data[base + 6],
                         node_data[base + 7])]

\* FastGraphRenderer::set_nodes without self.nodes.clear() (what C19 rests on)
set_nodes_append ==
    /\ phase = "idle"
    /\ \E data \in NodeInputs :
          /\ nodes' = nodes \o ParsedNodes(data)
          /\ last_node_data' = data
    /\ last_call' = NoCall
    /\ UNCHANGED <<edges, is_initialized, compute, config, viewVars, gpuVars, steps, last_edge_data,
                   stepInput, stepParams, stepStart, phaseStart, phaseTrace>>

\* FastGraphRenderer::set_nodes
set_nodes ==
    /\ phase = "idle"
    /\ \E data \in NodeInputs :
          /\ nodes' = ParsedNodes(data)
          /\ last_node_data' = data
    /\ last_call' = NoCall
    /\ UNCHANGED <<edges, is_initialized, compute, config, viewVars, gpuVars, steps, last_edge_data,
                   stepInput, stepParams, stepStart, phaseStart, phaseTrace>>

\* the records set_edges pushes: one per complete run of 9 floats
ParsedEdges(data) ==
    LET stride == FLOATS_PER_EDGE
        edge_count == Len(data) \div stride
    IN  [k \in 1..edge_count |->
            LET base == (k - 1) * stride
            IN  HostEdge(data[base + 1], data[base + 2], data[base + 3],
                         data[base + 4], data[base + 5], data[base + 6],
                         data[base + 7], data[base + 8], data[base + 9])]

\* FastGraphRenderer::set_edges
set_edges ==
    /\ phase = "idle"
    /\ \E data \in EdgeInputs :
          /\ edges' = ParsedEdges(data)
          /\ last_edge_data' = data
    /\ last_call' = NoCall
    /\ UNCHANGED <<nodes, is_initialized, compute, config, viewVars, gpuVars, steps, last_node_data,
                   stepInput, stepParams, stepStart, phaseStart, phaseTrace>>

\* queue.write_buffer(buffer, 0, data)
WriteBuffer(buf, data) ==
    [i \in 1..Len(buf) |-> IF i <= Len(data) THEN data[i] ELSE buf[i]]

\* the uniform as the shader declares it: the counts are uploaded as f32 and read as u32
UploadedParams(p, node_len, edge_len) ==
    [delta_time |-> p.delta_time, damping_factor |-> p.damping_factor,
     spring_constant |-> p.spring_constant, rest_length |-> p.rest_length,
     repulsion_strength |-> p.repulsion_strength,
     repulsion_radius |-> p.repulsion_radius,
     node_count |-> F32BitsOfCount(node_len),
     edge_count |-> F32BitsOfCount(edge_len)]

\* queue.write_buffer validates that the data fits the buffer of buffer_len f32
Fits(buffer_len, data) == Len(data) <= buffer_len

\* std::panic::catch_unwind(closure) when the closure panics: a panic that
\* unwinds is caught and the caller goes on with Err; in a build whose panics
\* abort nothing is caught and the call of the caller ends in a trap.  The
\* crate is written for wasm32 (wasm_bindgen, web_sys, console_error_panic_hook:
\* lib.rs 1-2 and 57); which of the two a build does is fixed by its panic
\* strategy, and the model follows both.  It does not follow the renderer
\* beyond a trap: phase "trapped" has no successor.
PanicStrategies == {"unwind", "abort"}

\* the call returns: nothing has panicked, or the panic was caught
Caught(panicked, strategy) == ~panicked \/ strategy = "unwind"

\* Renderer::resize without its test against MAX_TEXTURE_SIZE (what C29 rests on)
Renderer_resizeUnchecked(cfg, width, height, event) ==
    IF width = 0 \/ height = 0 THEN cfg
    ELSE IF event = "configured" THEN [width |-> width, height |-> height]
    ELSE FallbackSize

\* Renderer::resize when it returns: a size with a zero or beyond
\* MAX_TEXTURE_SIZE is ignored; a size for which surface.configure panics is
\* replaced by 800 x 600
Renderer_resize(cfg, width, height, event) ==
    IF width = 0 \/ height = 0 THEN cfg
    ELSE IF width > MAX_TEXTURE_SIZE \/ height > MAX_TEXTURE_SIZE THEN cfg
    ELSE IF event = "configured" THEN [width |-> width, height |-> height]
    ELSE FallbackSize

\* surface.configure is called: the size has passed the tests of Renderer::resize
Reconfigured(width, height) ==
    /\ ~(width = 0 \/ height = 0)
    /\ ~(width > MAX_TEXTURE_SIZE \/ height > MAX_TEXTURE_SIZE)

\* FastGraphRenderer::resize with Renderer::resize.  Without a renderer that is
\* initialized and not rendering the call returns at once.  config.width and
\* config.height are assigned before surface.configure is called, so a panic
\* that is not caught leaves the new size.
resize ==
    /\ phase = "idle"
    /\ \E width \in ResizeWidths, height \in ResizeHeights :
          IF ~is_initialized \/ is_rendering
          THEN /\ last_call' = [op |-> "resize", backend |-> FALSE, returned |-> TRUE,
                                width |-> width, height |-> height]
               /\ UNCHANGED <<config, phase>>
          ELSE \E end \in { [returned |-> Caught(Reconfigured(width, height)
                                                    /\ event = "panic", strategy),
                              config |-> Renderer_resize(config, width, height, event)] :
                             event \in ConfigureEvents, strategy \in PanicStrategies } :
                  /\ config' = IF end.returned THEN end.config
                                ELSE [width |-> width, height |-> height]
                  /\ phase' = IF end.returned THEN phase ELSE "trapped"
                  /\ last_call' = [op |-> "resize", backend |-> TRUE,
                                   returned |-> end.returned,
                                   width |-> width, height |-> height]
    /\ UNCHANGED <<nodes, edges, is_initialized, compute, viewVars,
                   node_physics_buffer, physics_params, grid, done, histVars>>

\* iter().take(n) without its limit (what C23 rests on)
TakeAll(list, n) == list

\* iter().take(n)
Take(list, n) == SubSeq(list, 1, Min(Len(list), n))

\* the seven f32 Renderer::render writes for a node: the position in
\* normalised device coordinates of the configured surface, colour, size
NodeInstance(node, cfg) ==
    << 2 * TruncDiv(node.x, cfg.width) - SCALE,
       SCALE - 2 * TruncDiv(node.y, cfg.height),
       node.r, node.g, node.b, node.a, node.size >>

\* instance_data of the nodes in node_list
RECURSIVE NodeInstanceData(_, _)
NodeInstanceData(node_list, cfg) ==
    IF node_list = <<>> THEN <<>>
    ELSE NodeInstance(Head(node_list), cfg) \o NodeInstanceData(Tail(node_list), cfg)

\* f32 slots of the node instance buffer and of the edge instance buffer
NodeInstanceBufferLen == MAX_NODES * SHADER_FLOATS_PER_NODE
EdgeInstanceBufferLen == MAX_EDGES * FLOATS_PER_EDGE

\* a frame in which nothing has been written, recorded or drawn
EmptyFrame ==
    [outcome |-> "not_configured", uniforms |-> <<>>, gradient |-> FALSE,
     edge_warnings |-> 0, edge_instance_data |-> <<>>, edge_instances |-> 0,
     node_warnings |-> 0, node_instance_data |-> <<>>, node_instances |-> 0]

\* Renderer::render up to the point where it returns or panics: the uniforms
\* it writes, the warnings it logs, the instance data it writes and the draws
\* it records.  event is what the backend does in this frame.  The draws are
\* on the surface when outcome is "presented".
Renderer_render(cfg, time, c1, c2, node_list, edge_list, cam_position, cam_zoom, event) ==
    LET uniforms == [time |-> time, resolution |-> <<cfg.width, cfg.height>>,
                     color1 |-> c1, color2 |-> c2,
                     camera_position |-> cam_position, camera_zoom |-> cam_zoom]
        edge_instance_data == CastEdges(Take(edge_list, MAX_EDGES))
        instance_data == NodeInstanceData(Take(node_list, MAX_NODES), cfg)
        draws_edges == edge_list # <<>> /\ edge_instance_data # <<>>
        draws_nodes == node_list # <<>> /\ instance_data # <<>>
    IN  IF cfg.width = 0 \/ cfg.height = 0 THEN EmptyFrame
        ELSE IF event \in {"no_texture", "panic_in_encode"}
        THEN [EmptyFrame EXCEPT !.outcome = event, !.uniforms = uniforms]
        ELSE [outcome |-> event,
              uniforms |-> uniforms,
              gradient |-> (node_list = <<>> /\ edge_list = <<>>),
              edge_warnings |-> IF Len(edge_list) > MAX_EDGES THEN 1 ELSE 0,
              edge_instance_data |-> IF draws_edges THEN edge_instance_data ELSE <<>>,
              edge_instances |-> IF draws_edges THEN Min(Len(edge_list), MAX_EDGES) ELSE 0,
              node_warnings |-> IF Len(node_list) > MAX_NODES THEN 1 ELSE 0,
              node_instance_data |-> IF draws_nodes THEN instance_data ELSE <<>>,
              node_instances |-> IF draws_nodes THEN Min(Len(node_list), MAX_NODES) ELSE 0]

\* FastGraphRenderer::render with Renderer::render.  Without a renderer that is
\* initialized and not rendering the call returns at once; otherwise
\* is_rendering is set, the frame is drawn from the lists, the colours and the
\* camera of the caller, and is_rendering is cleared when Renderer::render has
\* returned or its panic has been caught.  No other field is written.
render ==
    /\ phase = "idle"
    /\ IF ~is_initialized \/ is_rendering
       THEN /\ last_call' = [op |-> "render", backend |-> FALSE, returned |-> TRUE]
            /\ UNCHANGED <<is_rendering, phase>>
       ELSE \E time \in Times, event \in FrameEvents :
               LET frame == Renderer_render(config, time, color1, color2, nodes, edges,
                                            camera_position, camera_zoom, event)
                   panicked == frame.outcome \in {"panic_in_encode", "panic_in_submit"}
               IN  \E returned \in { Caught(panicked, strategy) :
                                       strategy \in PanicStrategies } :
                      /\ is_rendering' = ~returned
                      /\ phase' = IF returned THEN phase ELSE "trapped"
                      /\ last_call' = [op |-> "render", backend |-> TRUE,
                                       returned |-> returned, frame |-> frame]
    /\ UNCHANGED <<hostVars, color1, color2, camera_position, camera_zoom,
                   node_physics_buffer, physics_params, grid, done, histVars>>

\* FastGraphRenderer::set_colors, set_color1, set_color2
set_colors ==
    /\ phase = "idle"
    /\ \E c1 \in ColourInputs, c2 \in ColourInputs : color1' = c1 /\ color2' = c2
    /\ last_call' = NoCall
    /\ UNCHANGED <<hostVars, is_rendering, camera_position, camera_zoom, gpuVars, histVars>>

set_color1 ==
    /\ phase = "idle"
    /\ \E c \in ColourInputs : color1' = c
    /\ last_call' = NoCall
    /\ UNCHANGED <<hostVars, is_rendering, color2, camera_position, camera_zoom,
                   gpuVars, histVars>>

set_color2 ==
    /\ phase = "idle"
    /\ \E c \in ColourInputs : color2' = c
    /\ last_call' = NoCall
    /\ UNCHANGED <<hostVars, is_rendering, color1, camera_position, camera_zoom,
                   gpuVars, histVars>>

\* FastGraphRenderer::set_color1_hex, set_color2_hex: the colour is stored if
\* parse_hex_color returns one
set_color1_hex ==
    /\ phase = "idle"
    /\ \E parsed \in ParsedHexInputs :
          color1' = IF parsed = NoColour THEN color1 ELSE parsed
    /\ last_call' = NoCall
    /\ UNCHANGED <<hostVars, is_rendering, color2, camera_position, camera_zoom,
                   gpuVars, histVars>>

set_color2_hex ==
    /\ phase = "idle"
    /\ \E parsed \in ParsedHexInputs :
          color2' = IF parsed = NoColour THEN color2 ELSE parsed
    /\ last_call' = NoCall
    /\ UNCHANGED <<hostVars, is_rendering, color1, camera_position, camera_zoom,
                   gpuVars, histVars>>

\* FastGraphRenderer::set_camera_position
set_camera_position ==
    /\ phase = "idle"
    /\ \E position \in CameraInputs : camera_position' = position
    /\ last_call' = NoCall
    /\ UNCHANGED <<hostVars, is_rendering, color1, color2, camera_zoom, gpuVars, histVars>>

\* f32::max and f32::min: of a NaN and a number, the number
F32Max(a, b) == IF a = NaN THEN b ELSE IF b = NaN THEN a ELSE Max(a, b)
F32Min(a, b) == IF a = NaN THEN b ELSE IF b = NaN THEN a ELSE Min(a, b)

\* zoom.max(0.1) alone (what C30 rests on)
ClampZoomBelowOnly(zoom) == F32Max(zoom, SCALE \div 10)

\* zoom.max(0.1).min(10.0)
ClampZoom(zoom) == F32Min(F32Max(zoom, SCALE \div 10), 10 * SCALE)

\* FastGraphRenderer::set_camera_zoom
set_camera_zoom ==
    /\ phase = "idle"
    /\ \E zoom \in ZoomInputs :
          /\ camera_zoom' = ClampZoom(zoom)
          /\ last_call' = [op |-> "set_camera_zoom", zoom |-> zoom]
    /\ UNCHANGED <<hostVars, is_rendering, color1, color2, camera_position,
                   gpuVars, histVars>>

\* FastGraphRenderer::reset_camera
reset_camera ==
    /\ phase = "idle"
    /\ camera_position' = <<0, 0>>
    /\ camera_zoom' = SCALE
    /\ last_call' = [op |-> "reset_camera"]
    /\ UNCHANGED <<hostVars, is_rendering, color1, color2, gpuVars, histVars>>

\* Renderer::integrate_physics: upload, record the four dispatches, submit;
\* without the compute pipelines, only a log line.  nodes is never written.
\* The node and edge lists are uploaded whole.  A list that does not fit its
\* buffer makes write_buffer fail validation and nothing of it is written; what
\* follows depends on the backend (the call traps, or the pass runs over what
\* the buffer held before, with out-of-range invocations whose accesses are
\* left to the implementation), and the model does not follow the renderer
\* beyond that point: phase "write_refused" has no successor.
\* No entry point reads binding 1 and nothing reads it back, so of the edge
\* upload the model keeps the validation and not the buffer contents.
Renderer_integrate_physics ==
    /\ phase = "idle"
    /\ steps < MaxSteps
    /\ steps' = steps + 1
    /\ stepInput' = nodes
    /\ \E p \in ParamInputs :
          /\ stepParams' = p
          /\ IF compute
             THEN LET node_floats == CastSlice(nodes)
                      edge_floats == CastEdges(edges)
                      nodes_fit == Fits(NodeBufferLen, node_floats)
                      edges_fit == Fits(EdgeBufferLen, edge_floats)
                  IN  /\ physics_params' = UploadedParams(p, Len(nodes), Len(edges))
                      /\ node_physics_buffer' =
                            IF nodes_fit
                            THEN WriteBuffer(node_physics_buffer, node_floats)
                            ELSE node_physics_buffer
                      /\ stepStart' = node_physics_buffer'
                      /\ phaseStart' = node_physics_buffer'
                      /\ phase' = IF nodes_fit /\ edges_fit
                                  THEN Phases[1] ELSE "write_refused"
                      /\ phaseTrace' = IF nodes_fit /\ edges_fit
                                       THEN <<Phases[1]>> ELSE <<>>
                      /\ done' = {}
                      /\ UNCHANGED grid
             ELSE /\ phaseTrace' = <<>>
                  /\ UNCHANGED <<gpuVars, stepStart, phaseStart>>
    /\ last_call' = NoCall
    /\ UNCHANGED <<hostVars, viewVars, last_node_data, last_edge_data>>

(***************************************************************************)
(* GPU execution of the submitted compute pass                             *)
(***************************************************************************)
\* The whole effect of an invocation of the clear dispatch is node_count = 0 of
\* its own cell: an invocation that finds the count at 0 leaves the state as it
\* is, and the counts themselves tell which invocations are still to run.
ClearPending ==
    { c \in DOMAIN grid : c < ClearInvocations /\ grid[c].node_count # 0 }

\* one invocation of the clear dispatch
ClearGridInvocation ==
    /\ phase = "clear_grid"
    /\ \E grid_index \in ClearPending :
          grid' = clear_grid(grid, grid_index)
    /\ UNCHANGED <<hostVars, viewVars, last_call, node_physics_buffer, physics_params,
                   phase, done, histVars>>

ClearGridFinished == ClearPending = {}

Pending == (0..(NodeInvocations(stepNodes) - 1)) \ done

AssignInvocation ==
    /\ phase = "assign_to_grid"
    /\ \E node_index \in Pending :
          /\ grid' = assign_to_grid(grid, node_physics_buffer, physics_params, node_index)
          /\ done' = done \cup {node_index}
    /\ UNCHANGED <<hostVars, viewVars, last_call, node_physics_buffer, physics_params,
                   phase, histVars>>

RepulsionInvocation ==
    /\ phase = "calculate_repulsion"
    /\ \E node_index \in Pending :
          /\ node_physics_buffer' =
                calculate_repulsion(grid, node_physics_buffer, physics_params, node_index)
          /\ done' = done \cup {node_index}
    /\ UNCHANGED <<hostVars, viewVars, last_call, physics_params, grid, phase, histVars>>

IntegrateInvocation ==
    /\ phase = "integrate_physics"
    /\ \E index \in Pending :
          /\ node_physics_buffer' = integrate_physics(node_physics_buffer, physics_params, index)
          /\ done' = done \cup {index}
    /\ UNCHANGED <<hostVars, viewVars, last_call, physics_params, grid, phase, histVars>>

DispatchFinished ==
    IF phase = "clear_grid" THEN ClearGridFinished ELSE Pending = {}

\* the next dispatch of the pass starts when the running one has finished
NextDispatch ==
    /\ phase \in {Phases[1], Phases[2], Phases[3]}
    /\ DispatchFinished
    /\ phase' = Phases[Len(phaseTrace) + 1]
    /\ phaseTrace' = Append(phaseTrace, phase')
    /\ phaseStart' = node_physics_buffer
    /\ done' = {}
    /\ UNCHANGED <<hostVars, viewVars, last_call, node_physics_buffer, physics_params,
                   grid, steps, last_node_data, last_edge_data, stepInput, stepParams,
                   stepStart>>

\* the submission has executed; nothing is copied back to the host
SubmissionDone ==
    /\ phase = Phases[4]
    /\ DispatchFinished
    /\ phase' = "idle"
    /\ done' = {}
    /\ UNCHANGED <<hostVars, viewVars, last_call, node_physics_buffer, physics_params,
                   grid, histVars>>

Next ==
    \/ init
    \/ set_nodes
    \/ set_edges
    \/ Renderer_integrate_physics
    \/ ClearGridInvocation
    \/ AssignInvocation
    \/ RepulsionInvocation
    \/ IntegrateInvocation
    \/ NextDispatch
    \/ SubmissionDone

\* the operations of a physics step and of the lists it works on; the surface
\* keeps the size init gave it
Spec == Init /\ [][Next]_vars

\* the operations C17 names.  The steps are taken on lists of at most one
\* node: what init, render, resize, set_nodes and set_edges do does not depend
\* on the records a step has left on the device, and Spec follows the steps on
\* every list.
HostNext ==
    \/ init
    \/ set_nodes
    \/ set_edges
    \/ resize
    \/ render
    \/ (Len(nodes) <= 1 /\ Renderer_integrate_physics)
    \/ ClearGridInvocation
    \/ AssignInvocation
    \/ RepulsionInvocation
    \/ IntegrateInvocation
    \/ NextDispatch
    \/ SubmissionDone

HostSpec == Init /\ [][HostNext]_vars

\* the public operations of FastGraphRenderer (the getters apart, which return
\* a field); Renderer::integrate_physics is called by none of them
ApiNext ==
    \/ init
    \/ render
    \/ resize
    \/ set_colors
    \/ set_color1
    \/ set_color2
    \/ set_color1_hex
    \/ set_color2_hex
    \/ set_nodes
    \/ set_edges
    \/ set_camera_position
    \/ set_camera_zoom
    \/ reset_camera

ApiSpec == Init /\ [][ApiNext]_vars

(***************************************************************************)
(* What the properties below speak about                                   *)
(***************************************************************************)
\* the positions FastGraphRenderer::render hands to Renderer::render
RenderPositions == [k \in 1..Len(nodes) |-> <<nodes[k].x, nodes[k].y>>]

\* the invocations of a per-node dispatch of the last step
Invocations == 0..(NodeInvocations(stepNodes) - 1)

\* a dispatch of the submitted pass is executing
Running == phase \in { Phases[k] : k \in 1..Len(Phases) }

\* the last step ran on the GPU and every invocation of its last dispatch has finished
StepExecuted == phase = "integrate_physics" /\ Pending = {}

\* every invocation of the repulsion dispatch has finished, none of the next has started
RepulsionExecuted == phase = "calculate_repulsion" /\ Pending = {}

\* shader node k now, when the running dispatch started, when the step was submitted
NodeNow(k) == ShaderNode(node_physics_buffer, k)
NodeAtPhaseStart(k) == ShaderNode(phaseStart, k)
NodeAtStepStart(k) == ShaderNode(stepStart, k)

\* what the running repulsion dispatch has added to the force accumulator of node k
ForceIncrement(k) ==
    [x |-> NodeNow(k).fx - NodeAtPhaseStart(k).fx,
     y |-> NodeNow(k).fy - NodeAtPhaseStart(k).fy]

ZeroVec == [x |-> 0, y |-> 0]

(***************************************************************************)
(* C1                                                                      *)
(***************************************************************************)
\* C1: after a step on a node array with a node of non-zero velocity or force,
\* the caller-visible node array (and so the positions the next render reads)
\* holds for every node the position the integrator produced.
C1_StepReturnsUpdatedNodes ==
    (/\ phase = "idle"
     /\ phaseTrace # <<>>
     /\ nodes = stepInput
     /\ \E k \in 0..(stepNodes - 1) :
           \/ NodeAtStepStart(k).vx # 0 \/ NodeAtStepStart(k).vy # 0
           \/ NodeAtStepStart(k).fx # 0 \/ NodeAtStepStart(k).fy # 0)
    => \A k \in 0..(stepNodes - 1) :
          RenderPositions[k + 1] = <<NodeNow(k).x, NodeNow(k).y>>

(***************************************************************************)
(* C2                                                                      *)
(***************************************************************************)
ClaimedPhaseOrder ==
    <<"clear_grid", "assign_to_grid", "calculate_repulsion", "spring", "integrate_physics">>

\* C2: in every step the dispatches run in the order clear-grid, assign-to-grid,
\* repulsion, spring, integrate, each one started only after the one before it
\* has finished: what has run of a step is always a prefix of that order, a
\* finished step has run all of it, and invocations that have finished belong
\* to the last dispatch started.
C2_PhaseOrder ==
    /\ Len(phaseTrace) <= Len(ClaimedPhaseOrder)
    /\ \A k \in 1..Len(phaseTrace) : phaseTrace[k] = ClaimedPhaseOrder[k]
    /\ (phase = "idle" /\ phaseTrace # <<>>) => phaseTrace = ClaimedPhaseOrder
    /\ Running => phase = phaseTrace[Len(phaseTrace)]
    /\ (phase = "idle") => done = {}

(***************************************************************************)
(* C3                                                                      *)
(***************************************************************************)
\* the indices 0 .. n - 1 in order
IndexSeq(n) == [s \in 1..n |-> s - 1]

\* the force of a scan over all other dispatched nodes with the same force law
BruteForce(k) ==
    TotalForce(phaseStart, physics_params, NodeAtPhaseStart(k), k,
               IndexSeq(NodeInvocations(stepNodes)), ZeroVec)

\* C3: when the repulsion dispatch has finished, the force it has accumulated
\* on each node equals the force of a scan over all other nodes with the same
\* force law, pairs within repulsion_radius in non-adjacent cells included.
C3_GridEqualsBruteForce ==
    RepulsionExecuted => \A k \in Invocations : ForceIncrement(k) = BruteForce(k)

(***************************************************************************)
(* C4                                                                      *)
(***************************************************************************)
\* the other nodes the 3x3 scan of node k reads from the grid
OthersScanned(k) ==
    LET node == NodeAtPhaseStart(k)
        slots == NeighbourSlots(grid, get_grid_cell(node.x, node.y), 0)
    IN  { slots[s] : s \in 1..Len(slots) } \ {k}

\* a force on node_i directed from node_j toward node_i, of magnitude
\* repulsion_strength / max(distance, 0.01)^2
PushApart(node_i, node_j, p) ==
    LET dist == Dist(node_i, node_j)
        min_dist == Max(dist, MIN_DIST)
        magnitude == TruncDiv(p.repulsion_strength * SCALE * SCALE, min_dist * min_dist)
    IN  [x |-> Mul(Div(node_i.x - node_j.x, dist), magnitude),
         y |-> Mul(Div(node_i.y - node_j.y, dist), magnitude)]

\* C4: for repulsion_strength > 0, when node j is the one other node the scan of
\* node i reads and 0.001 < distance(i, j) <= repulsion_radius, the force the
\* repulsion pass has added to node i is directed from j toward i and has
\* magnitude repulsion_strength / max(distance, 0.01)^2.
C4_ForcePushesApart ==
    \A i \in Invocations, j \in Invocations :
        (/\ phase = "calculate_repulsion"
         /\ i \in done
         /\ physics_params.repulsion_strength > 0
         /\ OthersScanned(i) = {j}
         /\ Dist(NodeNow(i), NodeNow(j)) > EPSILON_DIST
         /\ Dist(NodeNow(i), NodeNow(j)) <= physics_params.repulsion_radius)
        => ForceIncrement(i) = PushApart(NodeNow(i), NodeNow(j), physics_params)

(***************************************************************************)
(* C5                                                                      *)
(***************************************************************************)
\* C5: a step over two nodes whose distance is within repulsion_radius (and
\* not below the 0.001 cutoff), with repulsion_strength > 0, gives both nodes a
\* non-zero force increment, the two equal in magnitude, opposite in direction
\* and along the line joining the nodes.
C5_PairGetsOppositeIncrements ==
    (/\ RepulsionExecuted
     /\ Invocations = {0, 1}
     /\ physics_params.repulsion_strength > 0
     /\ Dist(NodeNow(0), NodeNow(1)) >= EPSILON_DIST
     /\ Dist(NodeNow(0), NodeNow(1)) <= physics_params.repulsion_radius)
    => /\ ForceIncrement(0) # ZeroVec
       /\ ForceIncrement(1) # ZeroVec
       /\ ForceIncrement(0).x = 0 - ForceIncrement(1).x
       /\ ForceIncrement(0).y = 0 - ForceIncrement(1).y
       /\ (NodeNow(0).x = NodeNow(1).x) => ForceIncrement(0).x = 0
       /\ (NodeNow(0).y = NodeNow(1).y) => ForceIncrement(0).y = 0

(***************************************************************************)
(* C6                                                                      *)
(***************************************************************************)
\* the slots the 3x3 scan of node k reads, in the order it reads them
ScanOf(k) ==
    LET node == NodeAtPhaseStart(k)
    IN  NeighbourSlots(grid, get_grid_cell(node.x, node.y), 0)

\* the force of the scan of node k over the slots in others only
ForceOver(k, others) ==
    TotalForce(phaseStart, physics_params, NodeAtPhaseStart(k), k, others, ZeroVec)

\* the slots of the scan of node k that hold a node within repulsion_radius
ScanWithinRadius(k) ==
    LET Near(j) == Dist(NodeAtPhaseStart(k), NodeAtPhaseStart(j))
                       <= physics_params.repulsion_radius
    IN  SelectSeq(ScanOf(k), Near)

\* C6: during a step, whatever two distinct nodes are farther apart than
\* repulsion_radius, the contribution of one to the other's force accumulator
\* is exactly zero; and what the repulsion pass has added to a node is the sum
\* over the scanned nodes within repulsion_radius alone.
C6_BeyondRadiusZero ==
    /\ \A i \in Invocations, j \in Invocations :
          (/\ Running
           /\ i # j
           /\ Dist(NodeNow(i), NodeNow(j)) > physics_params.repulsion_radius)
          => RepulsionContribution(NodeNow(i), NodeNow(j), physics_params) = ZeroVec
    /\ \A i \in Invocations :
          (phase = "calculate_repulsion" /\ i \in done)
          => ForceIncrement(i) = ForceOver(i, ScanWithinRadius(i))

\* the repulsion pass has scanned, for a finished node, another node farther
\* away than repulsion_radius, with repulsion_strength > 0
C6_Witness ==
    /\ phase = "calculate_repulsion"
    /\ physics_params.repulsion_strength > 0
    /\ \E i \in done : \E j \in OthersScanned(i) :
          /\ Dist(NodeNow(i), NodeNow(j)) > physics_params.repulsion_radius
          /\ ForceIncrement(i) = ZeroVec

(***************************************************************************)
(* C7                                                                      *)
(***************************************************************************)
\* the slots of the scan of node k that hold a node at a distance other than 0
ScanApart(k) ==
    LET Apart(j) == Dist(NodeAtPhaseStart(k), NodeAtPhaseStart(j)) # 0
    IN  SelectSeq(ScanOf(k), Apart)

\* C7: during a step, for any two distinct nodes: where calculate_repulsion_force
\* gets past its early return, and so divides, dist and min_dist * min_dist are
\* not zero; nodes at distance 0 contribute zero force; and what the repulsion
\* pass has added to a node is the sum over the scanned nodes that do not
\* coincide with it.
C7_CoincidentNodesZero ==
    /\ \A i \in Invocations, j \in Invocations :
          (Running /\ i # j)
          => LET dist == Dist(NodeNow(i), NodeNow(j))
             IN  /\ ~ForceCutoff(dist, physics_params)
                       => (dist # 0 /\ MinDistSquared(dist) # 0)
                 /\ dist = 0
                       => RepulsionContribution(NodeNow(i), NodeNow(j), physics_params)
                             = ZeroVec
    /\ \A i \in Invocations :
          (phase = "calculate_repulsion" /\ i \in done)
          => ForceIncrement(i) = ForceOver(i, ScanApart(i))

\* the repulsion pass has scanned, for a finished node, another node at
\* distance 0, with repulsion_strength > 0 and repulsion_radius > 0
C7_Witness ==
    /\ phase = "calculate_repulsion"
    /\ physics_params.repulsion_strength > 0
    /\ physics_params.repulsion_radius > 0
    /\ \E i \in done : \E j \in OthersScanned(i) :
          /\ Dist(NodeNow(i), NodeNow(j)) = 0
          /\ ForceIncrement(i) = ZeroVec

(***************************************************************************)
(* C8                                                                      *)
(***************************************************************************)
\* v' = (v + f * dt) * damping_factor
DampedVelocity(v, f, p) == Mul(v + Mul(f, p.delta_time), p.damping_factor)

\* C8: in the integrate dispatch, a node whose invocation has finished holds
\* v' = (v + f * dt) * damping_factor, x' = x + v' * dt and a zero force
\* accumulator, with colour, size and mass as before; a node whose invocation
\* has not run is as the dispatch found it.
C8_SymplecticEuler ==
    \A k \in Invocations :
        (phase = "integrate_physics")
        => LET old == NodeAtPhaseStart(k)
               new == NodeNow(k)
               vx == DampedVelocity(old.vx, old.fx, physics_params)
               vy == DampedVelocity(old.vy, old.fy, physics_params)
           IN  IF k \in done
               THEN /\ new.vx = vx
                    /\ new.vy = vy
                    /\ new.x = old.x + Mul(vx, physics_params.delta_time)
                    /\ new.y = old.y + Mul(vy, physics_params.delta_time)
                    /\ new.fx = 0
                    /\ new.fy = 0
                    /\ <<new.r, new.g, new.b, new.a>> = <<old.r, old.g, old.b, old.a>>
                    /\ new.size = old.size
                    /\ new.mass = old.mass
               ELSE new = old

\* the integrate dispatch has moved a node that had a force and a velocity,
\* under damping other than 1, while another node is still to be integrated
C8_Witness ==
    /\ phase = "integrate_physics"
    /\ physics_params.damping_factor # SCALE
    /\ Pending # {}
    /\ \E k \in done :
          /\ NodeAtPhaseStart(k).fx # 0 \/ NodeAtPhaseStart(k).fy # 0
          /\ NodeAtPhaseStart(k).vx # 0
          /\ NodeNow(k).vx # NodeAtPhaseStart(k).vx
          /\ NodeNow(k).x # NodeAtPhaseStart(k).x

(***************************************************************************)
(* C9                                                                      *)
(***************************************************************************)
\* C9: with damping_factor = 1, repulsion_strength = 0 and spring_constant = 0,
\* a full step leaves the velocity of every node of the caller as it was when
\* the step was submitted and advances its position by v * dt.
C9_InertialDrift ==
    (/\ StepExecuted
     /\ physics_params.damping_factor = SCALE
     /\ physics_params.repulsion_strength = 0
     /\ physics_params.spring_constant = 0)
    => \A k \in 0..(stepNodes - 1) :
          LET old == NodeAtStepStart(k)
              new == NodeNow(k)
          IN  /\ new.vx = old.vx
              /\ new.vy = old.vy
              /\ new.x = old.x + Mul(old.vx, physics_params.delta_time)
              /\ new.y = old.y + Mul(old.vy, physics_params.delta_time)

(***************************************************************************)
(* C10                                                                     *)
(***************************************************************************)
\* the dispatches of a step with their invocations run in index order
RECURSIVE AssignAll(_, _, _, _, _)
AssignAll(grd, buf, p, k, n) ==
    IF k >= n THEN grd
    ELSE AssignAll(assign_to_grid(grd, buf, p, k), buf, p, k + 1, n)

RECURSIVE RepulseAll(_, _, _, _, _)
RepulseAll(grd, buf, p, k, n) ==
    IF k >= n THEN buf
    ELSE RepulseAll(grd, calculate_repulsion(grd, buf, p, k), p, k + 1, n)

RECURSIVE IntegrateAll(_, _, _, _)
IntegrateAll(buf, p, k, n) ==
    IF k >= n THEN buf
    ELSE IntegrateAll(integrate_physics(buf, p, k), p, k + 1, n)

\* the node buffer after a step on buf in which every cell count starts at 0
\* and the invocations of each dispatch run in index order
InOrderStep(buf, p, n) ==
    IntegrateAll(RepulseAll(AssignAll(<< >>, buf, p, 0, n), buf, p, 0, n), p, 0, n)

\* C10: the node output of a step is a function of its input (nodes, params):
\* whatever the order of the invocations inside each dispatch, the step ends
\* with the node buffer that the in-order execution of the same input produces,
\* inputs that put more nodes into one cell than it has slots included.
C10_StepDeterministic ==
    StepExecuted
    => node_physics_buffer
          = InOrderStep(stepStart, physics_params, NodeInvocations(stepNodes))

(***************************************************************************)
(* C11                                                                     *)
(***************************************************************************)
\* the complete shader records the node buffer holds
BufferRecords == 0..((NodeBufferLen \div SHADER_FLOATS_PER_NODE) - 1)

\* coordinate v lies in column (or row) c of the grid laid over the world
InsideCell(v, c) ==
    /\ c * WORLD_SIZE <= (v - WORLD_MIN) * GRID_SIZE
    /\ (v - WORLD_MIN) * GRID_SIZE < (c + 1) * WORLD_SIZE

\* column (or row) c is the one C11 gives coordinate v
AxisMapped(v, c) ==
    /\ c \in 0..(GRID_SIZE - 1)
    /\ (v < WORLD_MIN) => c = 0
    /\ (v >= WORLD_MAX) => c = GRID_SIZE - 1
    /\ (WORLD_MIN <= v /\ v < WORLD_MAX) => InsideCell(v, c)

\* C11: get_grid_cell and get_grid_index map the position of every record the
\* node buffer ever holds to one cell with column and row in [0, 32) and index
\* in [0, 1024): the cell of the grid that contains the position, and for a
\* coordinate below WORLD_MIN or at or above WORLD_MAX the boundary column or
\* row 0 or 31; the cell assign_to_grid counts a node in is that cell.
C11_PositionMapsToOneCell ==
    \A k \in BufferRecords :
        LET node == NodeNow(k)
            grid_pos == get_grid_cell(node.x, node.y)
            grid_index == get_grid_index(grid_pos)
        IN  /\ AxisMapped(node.x, grid_pos.x)
            /\ AxisMapped(node.y, grid_pos.y)
            /\ grid_index \in 0..(GRID_CELLS - 1)
            /\ grid_index = grid_pos.y * GRID_SIZE + grid_pos.x
            /\ (phase = "assign_to_grid" /\ k \in done)
                  => Cell(grid, grid_index).node_count > 0

\* a node right of the world and below it has been counted in the cell of the
\* last column and the first row
C11_Witness ==
    /\ phase = "assign_to_grid"
    /\ \E k \in done :
          /\ NodeNow(k).x >= WORLD_MAX
          /\ NodeNow(k).y < WORLD_MIN
          /\ get_grid_cell(NodeNow(k).x, NodeNow(k).y) = [x |-> GRID_SIZE - 1, y |-> 0]
          /\ Cell(grid, GRID_SIZE - 1).node_count > 0


(***************************************************************************)
(* C12                                                                     *)
(***************************************************************************)
\* the cell index of the record of node k
CellOf(k) == get_grid_index(get_grid_cell(NodeNow(k).x, NodeNow(k).y))

\* the nodes of the step that map to cell c
NodesIn(c) == { k \in 0..(stepNodes - 1) : CellOf(k) = c }

\* the node indices the filled slots of cell c hold
SlotSet(c) == { CellSlots(Cell(grid, c))[s] : s \in DOMAIN CellSlots(Cell(grid, c)) }

\* C12: when the assign dispatch has finished, under every interleaving of its
\* invocations, the count of each cell is the number of nodes of the step that
\* map to it, the filled slots 0 .. min(count, capacity) - 1 hold pairwise
\* distinct indices of nodes that map to the cell, and a node that found the
\* cell full is in no slot.
C12_AssignCountsNodes ==
    (phase = "assign_to_grid" /\ Pending = {})
    => \A c \in 0..(GRID_CELLS - 1) :
          /\ Cell(grid, c).node_count = Cardinality(NodesIn(c))
          /\ Cardinality(SlotSet(c)) = Min(Cell(grid, c).node_count, CELL_CAPACITY)
          /\ SlotSet(c) \subseteq NodesIn(c)

(***************************************************************************)
(* C13                                                                     *)
(***************************************************************************)
\* C13: a step on the accelerated path that is given more than MAX_NODES nodes
\* or more than MAX_EDGES edges is not rejected, and processes exactly
\* MAX_NODES nodes and MAX_EDGES edges: the counts handed to the phases are
\* those of the truncated lists, and the dispatches run over no more than
\* MAX_NODES nodes.
C13_OversizeTruncated ==
    (compute /\ steps > 0 /\ phase # "idle")
    => /\ phase # "write_refused"
       /\ physics_params.node_count = F32BitsOfCount(Min(Len(nodes), MAX_NODES))
       /\ physics_params.edge_count = F32BitsOfCount(Min(Len(edges), MAX_EDGES))
       /\ stepNodes <= MAX_NODES

(***************************************************************************)
(* C14                                                                     *)
(***************************************************************************)
\* the positions of the caller's node list
Positions(node_list) == [k \in 1..Len(node_list) |-> <<node_list[k].x, node_list[k].y>>]

\* the positions the accelerated step computes for node_list and the tunables p
AcceleratedPositions(node_list, p) ==
    LET n == Len(node_list)
        buf == InOrderStep(WriteBuffer(ZeroBuffer, CastSlice(node_list)),
                           UploadedParams(p, n, 0), NodeInvocations(n))
    IN  [k \in 1..n |-> <<ShaderNode(buf, k - 1).x, ShaderNode(buf, k - 1).y>>]

\* C14: a step taken without the compute pipelines applies repulsion, spring
\* and integration all the same: it leaves the nodes of the caller where the
\* accelerated step puts them for the same input.
C14_FallbackEqualsAccelerated ==
    [][(~compute /\ steps' = steps + 1 /\ Len(nodes) <= MAX_NODES)
          => Positions(nodes') = AcceleratedPositions(nodes, stepParams')]_vars

(***************************************************************************)
(* C15                                                                     *)
(***************************************************************************)
\* the spring force of edge ed on the node at position (x, y): of magnitude
\* spring_constant * (distance - rest_length) along the edge, towards the other
\* end when the edge is longer than rest_length; zero for a node that is at
\* neither end
SpringForce(ed, x, y, p) ==
    LET d == Hypot(ed.x2 - ed.x1, ed.y2 - ed.y1)
        magnitude == Mul(p.spring_constant, d - p.rest_length)
        along == [x |-> Div(Mul(magnitude, ed.x2 - ed.x1), d),
                  y |-> Div(Mul(magnitude, ed.y2 - ed.y1), d)]
    IN  IF d = 0 THEN ZeroVec
        ELSE IF x = ed.x1 /\ y = ed.y1 THEN along
        ELSE IF x = ed.x2 /\ y = ed.y2 THEN [x |-> 0 - along.x, y |-> 0 - along.y]
        ELSE ZeroVec

\* the sum of the spring forces of the edges in es on the node at (x, y)
RECURSIVE SpringTotal(_, _, _, _)
SpringTotal(es, x, y, p) ==
    IF es = <<>> THEN ZeroVec
    ELSE LET head == SpringForce(Head(es), x, y, p)
             rest == SpringTotal(Tail(es), x, y, p)
         IN  [x |-> head.x + rest.x, y |-> head.y + rest.y]

\* a node of the step lies at (x, y)
NodeAt(x, y) == \E k \in 0..(stepNodes - 1) : NodeNow(k).x = x /\ NodeNow(k).y = y

\* the edges of the caller that join two nodes of the step
JoiningEdges ==
    SelectSeq(edges, LAMBDA ed : NodeAt(ed.x1, ed.y1) /\ NodeAt(ed.x2, ed.y2))

\* the force the repulsion dispatch of the step adds to node k
RepulsionOfStep(k) ==
    LET node == NodeAtStepStart(k)
    IN  TotalForce(stepStart, physics_params, node, k,
                   NeighbourSlots(grid, get_grid_cell(node.x, node.y), 0), ZeroVec)

\* C15: in a step with spring_constant > 0, when integration starts the force
\* accumulator of every node holds, on top of its value at the start of the
\* step and of the repulsion of the step, the spring forces of the edges that
\* join it to another node: spring_constant * (distance - rest_length) along
\* the edge, with opposite signs for the two ends.
C15_SpringForceApplied ==
    (phase = "integrate_physics" /\ done = {} /\ physics_params.spring_constant > 0)
    => \A k \in 0..(stepNodes - 1) :
          LET spring == SpringTotal(JoiningEdges, NodeNow(k).x, NodeNow(k).y, physics_params)
          IN  /\ NodeNow(k).fx - NodeAtStepStart(k).fx = RepulsionOfStep(k).x + spring.x
              /\ NodeNow(k).fy - NodeAtStepStart(k).fy = RepulsionOfStep(k).y + spring.y

(***************************************************************************)
(* C16                                                                     *)
(***************************************************************************)
\* record k of a node buffer that holds the node list of the step and nothing
\* of an earlier step
FreshRecord(k) == ShaderNode(WriteBuffer(ZeroBuffer, CastSlice(stepInput)), k)

\* C16: when the repulsion dispatch of a step starts, the force accumulator of
\* every node of the step is zero; and the records a step works on are those
\* of the node list it was given, with nothing left in them by an earlier step.
C16_AccumulatorsStartAtZero ==
    /\ (phase = "calculate_repulsion" /\ done = {})
          => \A k \in 0..(stepNodes - 1) : NodeNow(k).fx = 0 /\ NodeNow(k).fy = 0
    /\ Running
          => \A k \in 0..(stepNodes - 1) : NodeAtStepStart(k) = FreshRecord(k)

(***************************************************************************)
(* C17                                                                     *)
(***************************************************************************)
\* the step just taken ran on the accelerated path
TookAcceleratedPath == phaseTrace # <<>> \/ phase = "write_refused"

\* C17: the path is chosen once, in init: once a renderer is initialized, no
\* operation (a step, render, resize, set_nodes, set_edges, a further init)
\* changes whether the compute pipelines and the physics buffers are there, and
\* every step takes the path init chose.
C17_PathChosenOnce ==
    [][/\ is_initialized => (is_initialized' /\ compute' = compute)
       /\ (is_initialized /\ steps' = steps + 1) => (TookAcceleratedPath' <=> compute)]_vars

\* an initialized renderer with the compute pipelines has been resized, given
\* nodes and edges, and has taken all its steps
C17_Witness ==
    /\ is_initialized
    /\ compute
    /\ steps = MaxSteps
    /\ phase = "idle"
    /\ config # CanvasSize
    /\ nodes # <<>>
    /\ edges # <<>>

(***************************************************************************)
(* C18                                                                     *)
(***************************************************************************)
\* the places of fx and fy of record k in the node buffer
AccumulatorSlots(k) == {SHADER_FLOATS_PER_NODE * k + 5, SHADER_FLOATS_PER_NODE * k + 6}

\* C18: while the repulsion dispatch runs, under every interleaving of its
\* invocations, the only floats of the node buffer that differ from their
\* value at the start of the dispatch are the accumulators of the nodes whose
\* own invocation has finished: no position or velocity is written, no
\* accumulator is written by the invocation of another node, and the force a
\* finished invocation has accumulated is the one its scan gives on the
\* positions of the start of the dispatch, whatever has run before it.
C18_OneWriterPerAccumulator ==
    phase = "calculate_repulsion"
    => /\ \A i \in 1..NodeBufferLen :
             (\A k \in done : i \notin AccumulatorSlots(k))
                => node_physics_buffer[i] = phaseStart[i]
       /\ \A k \in done : ForceIncrement(k) = ForceOver(k, ScanOf(k))

\* an invocation has accumulated a force from a node whose own invocation has
\* not run yet
C18_Witness ==
    /\ phase = "calculate_repulsion"
    /\ \E i \in done :
          /\ ForceIncrement(i) # ZeroVec
          /\ \E j \in Pending : j \in OthersScanned(i)

(***************************************************************************)
(* C19                                                                     *)
(***************************************************************************)
\* list holds one record per complete run of stride values of data and no
\* other, and fields(list[k]) is run k of data
Chunked(list, data, stride, fields(_)) ==
    /\ Len(list) * stride <= Len(data)
    /\ Len(data) < (Len(list) + 1) * stride
    /\ \A k \in 1..Len(list) :
          fields(list[k]) = SubSeq(data, (k - 1) * stride + 1, k * stride)

NodeFields(n) == <<n.x, n.y, n.r, n.g, n.b, n.a, n.size>>

EdgeFields(ed) == <<ed.x1, ed.y1, ed.x2, ed.y2, ed.r, ed.g, ed.b, ed.a, ed.width>>

\* a call of set_nodes or of set_edges has changed its list and nothing else
ListsOnly ==
    /\ (nodes' # nodes \/ last_node_data' # last_node_data)
          => UNCHANGED <<edges, last_edge_data, is_initialized, compute, config,
                         viewVars, gpuVars, steps, stepInput, stepParams, stepStart,
                         phaseStart, phaseTrace>>
    /\ (edges' # edges \/ last_edge_data' # last_edge_data)
          => UNCHANGED <<nodes, last_node_data, is_initialized, compute, config,
                         viewVars, gpuVars, steps, stepInput, stepParams, stepStart,
                         phaseStart, phaseTrace>>

\* C19: the node list is always the last buffer given to set_nodes cut into
\* records of 7 values x, y, r, g, b, a, size: floor(len / 7) nodes, node k from
\* data[7k .. 7k+6], nothing from a trailing incomplete record and nothing of
\* an earlier list; the edge list likewise with 9 values x1, y1, x2, y2, r, g,
\* b, a, width; and a call of either changes nothing but its own list.
C19_ListsReplacedWhole ==
    /\ [](/\ Chunked(nodes, last_node_data, 7, NodeFields)
          /\ Chunked(edges, last_edge_data, 9, EdgeFields))
    /\ [][ListsOnly]_vars

\* the one node of a buffer that ends in an incomplete record and the one edge
\* of such a buffer are the lists of a renderer that has been initialized and
\* resized and whose colours and camera have been set
C19_Witness ==
    /\ Len(nodes) = 1
    /\ Len(last_node_data) > 7
    /\ Len(edges) = 1
    /\ Len(last_edge_data) > 9
    /\ is_initialized
    /\ config # CanvasSize
    /\ color1 # Red
    /\ camera_zoom # SCALE

(***************************************************************************)
(* C20                                                                     *)
(***************************************************************************)
\* FastGraphRenderer::get_max_nodes, get_max_edges
get_max_nodes == MAX_NODES
get_max_edges == MAX_EDGES

\* FastGraphRenderer::get_current_node_count, get_current_edge_count
get_current_node_count == Len(nodes)
get_current_edge_count == Len(edges)

\* C20: in every state that calls of set_nodes and set_edges reach, the node
\* count the renderer reports is at most get_max_nodes and the edge count at
\* most get_max_edges.
C20_CountsWithinMaxima ==
    /\ get_current_node_count <= get_max_nodes
    /\ get_current_edge_count <= get_max_edges


(***************************************************************************)
(* C22                                                                     *)
(***************************************************************************)
\* C22: during a step, a pair of distinct nodes contributes a non-zero
\* repulsion force only if 0.001 < distance <= repulsion_radius: a pair at
\* distance exactly 0.001 contributes zero, and with repulsion_strength > 0 a
\* pair at distance exactly repulsion_radius (above 0.001) contributes a force
\* of the full magnitude repulsion_strength / max(distance, 0.01)^2.
C22_CutoffsStrictBelowClosedAbove ==
    \A i \in Invocations, j \in Invocations :
        (Running /\ i # j)
        => LET dist == Dist(NodeNow(i), NodeNow(j))
               c == RepulsionContribution(NodeNow(i), NodeNow(j), physics_params)
               full == PushApart(NodeNow(i), NodeNow(j), physics_params)
           IN  /\ c # ZeroVec
                     => (EPSILON_DIST < dist /\ dist <= physics_params.repulsion_radius)
               /\ dist = EPSILON_DIST => c = ZeroVec
               /\ (/\ dist = physics_params.repulsion_radius
                   /\ dist > EPSILON_DIST
                   /\ physics_params.repulsion_strength > 0)
                     => (Abs(c.x) = Abs(full.x) /\ Abs(c.y) = Abs(full.y) /\ c # ZeroVec)


(***************************************************************************)
(* C24                                                                     *)
(***************************************************************************)
\* the f32 slots of the node buffer that the upload of the step has written
UploadedSlots == 1..Len(CastSlice(stepInput))

\* the slots the shader reads as vx, vy, fx, fy and mass of record k
DynamicSlots(k) ==
    LET o == SHADER_FLOATS_PER_NODE * k
    IN  {o + 3, o + 4, o + 5, o + 6, o + 12}

\* C24: the node record integrate_physics uploads and the node record the
\* shader reads agree field by field: for every k < nodes.len() the x, y the
\* shader reads for node k are the x, y of nodes[k], and its vx, vy, fx, fy and
\* mass are read from no place that holds a field of the host array.
C24_RecordLayoutAgrees ==
    Running
    => \A k \in 0..(stepNodes - 1) :
          /\ NodeAtStepStart(k).x = stepInput[k + 1].x
          /\ NodeAtStepStart(k).y = stepInput[k + 1].y
          /\ DynamicSlots(k) \cap UploadedSlots = {}

(***************************************************************************)
(* C25                                                                     *)
(***************************************************************************)
\* the node indices the slots of the grid hold
GridIndices ==
    UNION { { CellSlots(grid[c])[s] : s \in DOMAIN CellSlots(grid[c]) } : c \in DOMAIN grid }

\* C25: the node_count the shader compares the invocation indices against is
\* nodes.len() of the step, so of the dispatch rounded up to whole workgroups
\* every invocation with index >= nodes.len() returns without writing: its
\* index is in no slot of the grid once the assign dispatch runs, the cells
\* count the nodes of the step only, and its record stays as the step found it.
C25_NodeCountIsListLength ==
    Running
    => /\ physics_params.node_count = stepNodes
       /\ \A k \in Invocations :
             k >= stepNodes
             => /\ NodeNow(k) = NodeAtStepStart(k)
                /\ (phase # "clear_grid") => k \notin GridIndices
       /\ (phase = "assign_to_grid")
             => \A c \in DOMAIN grid :
                   grid[c].node_count <= Cardinality(done \cap (0..(stepNodes - 1)))

(***************************************************************************)
(* C26                                                                     *)
(***************************************************************************)
\* the cell indices the 3x3 scan of the record at grid_pos computes
VisitedCells(grid_pos) ==
    { get_grid_index([x |-> grid_pos.x + dx, y |-> grid_pos.y + dy]) :
          <<dx, dy>> \in { d \in {0 - 1, 0, 1} \X {0 - 1, 0, 1} :
                             /\ grid_pos.x + d[1] >= 0 /\ grid_pos.x + d[1] < GRID_SIZE
                             /\ grid_pos.y + d[2] >= 0 /\ grid_pos.y + d[2] < GRID_SIZE } }

\* the invocations of the assign dispatch that have counted themselves in cell c
CountedIn(c) == { k \in Invocations : CellOf(k) = c }

\* C26: during the repulsion dispatch every grid slot that is read was written
\* by the assign dispatch of the same step and holds the index, below the
\* node count of the step, of a node that lies in that cell: a cell has no
\* slot at or beyond its capacity and no more slots are read than the
\* capacity, however many nodes were counted; the slots read of a cell hold
\* pairwise distinct indices of what the assign dispatch counted there; and
\* every cell a scan visits has an index in [0, 1024).
C26_SlotsReadAreOfThisStep ==
    (phase = "calculate_repulsion")
    => /\ DOMAIN grid \subseteq 0..(GRID_CELLS - 1)
       /\ \A c \in DOMAIN grid :
             LET slots == CellSlots(grid[c])
             IN  /\ DOMAIN grid[c].node_indices = 0..(CELL_CAPACITY - 1)
                 /\ Len(slots) = Min(Cardinality(CountedIn(c)), CELL_CAPACITY)
                 /\ \A s \in DOMAIN slots :
                       /\ slots[s] < stepNodes
                       /\ slots[s] \in CountedIn(c)
                       /\ \A s2 \in DOMAIN slots : slots[s2] = slots[s] => s2 = s
       /\ \A k \in Invocations :
             VisitedCells(get_grid_cell(NodeNow(k).x, NodeNow(k).y))
                \subseteq 0..(GRID_CELLS - 1)

\* C28: one call of FastGraphRenderer::init calls Renderer::init at most twice
\* and makes no call after one that succeeded; on a renderer that is not
\* initialized it returns Ok exactly when a call succeeded and is_initialized
\* is TRUE after it exactly then; is_initialized never goes back to FALSE, and
\* init on an initialized renderer returns Ok without a call of Renderer::init.
C28_InitTriesTwiceAndLatches ==
    /\ [][is_initialized => is_initialized']_vars
    /\ [][last_call'.op = "init"
            => LET made == last_call'.backend_results
               IN  /\ Len(made) <= 2
                   /\ \A k \in 1..Len(made) : made[k] = "Ok" => k = Len(made)
                   /\ ~is_initialized
                        => /\ (last_call'.result = "Ok") <=> (\E k \in 1..Len(made) : made[k] = "Ok")
                           /\ is_initialized' <=> (last_call'.result = "Ok")
                   /\ is_initialized
                        => /\ last_call'.result = "Ok"
                           /\ made = <<>>]_vars

\* init has returned Ok after a first call of Renderer::init that failed and a
\* second that succeeded
C28_Witness ==
    /\ last_call.op = "init"
    /\ last_call.result = "Ok"
    /\ last_call.backend_results = << "Err", "Ok" >>
    /\ is_initialized

\* C30: camera_zoom lies in [0.1, 10] in every state; set_camera_zoom(z)
\* stores 0.1 for a z below 0.1, 10 for a z above 10 and z itself for a z
\* between them, and changes no other variable; reset_camera leaves the
\* position (0, 0) and the zoom 1.
C30_ZoomStaysInRange ==
    /\ [](SCALE \div 10 <= camera_zoom /\ camera_zoom <= 10 * SCALE)
    /\ [][last_call'.op = "set_camera_zoom"
            => LET z == last_call'.zoom
               IN  /\ (z # NaN /\ z < SCALE \div 10) => camera_zoom' = SCALE \div 10
                   /\ (z # NaN /\ z > 10 * SCALE) => camera_zoom' = 10 * SCALE
                   /\ (z # NaN /\ SCALE \div 10 <= z /\ z <= 10 * SCALE) => camera_zoom' = z
                   /\ UNCHANGED <<hostVars, is_rendering, color1, color2,
                                  camera_position, gpuVars, histVars>>]_vars
    /\ [][last_call'.op = "reset_camera"
            => (camera_position' = <<0, 0>> /\ camera_zoom' = SCALE)]_vars

\* set_camera_zoom has been called with a zoom above the range on a camera
\* that had been moved, and the camera holds the upper end of the range
C30_Witness ==
    /\ last_call.op = "set_camera_zoom"
    /\ last_call.zoom > 10 * SCALE
    /\ camera_zoom = 10 * SCALE
    /\ camera_position # <<0, 0>>

\* C23: a render whose frame is presented draws min(len, MAX_NODES) node
\* instances and min(len, MAX_EDGES) edge instances; the instance data it
\* writes are those of the first entries of the list in their order, seven f32
\* a node and nine an edge, never more than MAX_NODES (MAX_EDGES) instances of
\* them; it logs one warning for a list beyond its maximum and none for a list
\* within it.
C23_DrawsFirstEntriesUpToMaximum ==
    [][(last_call'.op = "render" /\ last_call'.backend
            /\ last_call'.frame.outcome = "presented")
         => LET f == last_call'.frame
            IN  /\ f.node_instances = IF Len(nodes) > MAX_NODES THEN MAX_NODES ELSE Len(nodes)
                /\ Len(f.node_instance_data) = 7 * f.node_instances
                /\ Len(f.node_instance_data) <= 7 * MAX_NODES
                /\ \A k \in 1..f.node_instances :
                      SubSeq(f.node_instance_data, 7 * (k - 1) + 1, 7 * k)
                         = NodeInstance(nodes[k], config)
                /\ f.node_warnings = IF Len(nodes) > MAX_NODES THEN 1 ELSE 0
                /\ f.edge_instances = IF Len(edges) > MAX_EDGES THEN MAX_EDGES ELSE Len(edges)
                /\ Len(f.edge_instance_data) = 9 * f.edge_instances
                /\ Len(f.edge_instance_data) <= 9 * MAX_EDGES
                /\ \A k \in 1..f.edge_instances :
                      SubSeq(f.edge_instance_data, 9 * (k - 1) + 1, 9 * k)
                         = EdgeFloats(edges[k])
                /\ f.edge_warnings = IF Len(edges) > MAX_EDGES THEN 1 ELSE 0]_vars

\* a frame has been presented for a node list and an edge list that are both
\* beyond their maximum
C23_Witness ==
    /\ last_call.op = "render"
    /\ last_call.backend
    /\ last_call.frame.outcome = "presented"
    /\ Len(nodes) > MAX_NODES
    /\ Len(edges) > MAX_EDGES
    /\ last_call.frame.node_instances = MAX_NODES
    /\ last_call.frame.edge_instances = MAX_EDGES
    /\ last_call.frame.node_warnings = 1
    /\ last_call.frame.edge_warnings = 1

C21_FailedFrameIsAbandoned ==
    [][(last_call'.op = "render" /\ last_call'.backend
            /\ last_call'.frame.outcome # "presented")
         => /\ UNCHANGED <<nodes, edges, color1, color2, camera_position, camera_zoom>>
            /\ is_initialized'
            /\ ~is_rendering']_vars

\* C27: render and resize reach the backend only from a renderer that is
\* initialized and not rendering; a call of either on any other renderer
\* changes no variable of the renderer; is_rendering is FALSE in every state
\* between two calls.
C27_BackendOnlyWhenInitializedAndIdle ==
    /\ [](~is_rendering)
    /\ [][last_call'.op \in {"render", "resize"}
            => /\ last_call'.backend => (is_initialized /\ ~is_rendering)
               /\ ~(is_initialized /\ ~is_rendering)
                    => UNCHANGED <<hostVars, viewVars, gpuVars, histVars>>]_vars

=============================================================================
